---- MODULE Spec2Model ----
(***************************************************************************)
(* Model of ServerMD (src/MESSAGE/server_md.cpp): the server side of the   *)
(* client/server MD coupling protocol.  A fixed group of processes runs    *)
(* ServerMD::loop() in lockstep on identical messages; one action of the   *)
(* model is one pass through the message loop on every process: the        *)
(* receive, the whole SETUP or STEP handler and the reply.                 *)
(***************************************************************************)
EXTENDS Integers, Sequences, FiniteSets, TLC

(* ---------------------------------------------------------------------- *)
(* bounds of the model                                                     *)
(* ---------------------------------------------------------------------- *)

NProcs == 2      \* size of the process group (MPI world)
MaxAtoms == 2    \* largest NATOMS of a message whose atoms are scattered
MaxMsgs == 2     \* number of messages received before the client terminates

Procs == 1..NProcs

(* ---------------------------------------------------------------------- *)
(* enumerations of server_md.cpp                                           *)
(* ---------------------------------------------------------------------- *)

SETUP == 1
STEP == 2

DIM == 1
PERIODICITY == 2
ORIGIN == 3
BOX == 4
NATOMS == 5
NTYPES == 6
TYPES == 7
COORDS == 8
CHARGE == 9

FORCES == 1
ENERGY == 2
VIRIAL == 3

INT_MAX == 2147483647

\* field IDs outside the request enumeration DIM..CHARGE
UnknownFieldIDs == {0, 10}

\* message IDs returned by cs->recv() that are neither SETUP nor STEP
TerminateIDs == {-1}
OtherMsgIDs == {0, 3}

(* ---------------------------------------------------------------------- *)
(* error->all() messages                                                   *)
(* ---------------------------------------------------------------------- *)

NoError == ""
ErrDim == "Server md dimension mis-match with client"
ErrPeriodicity == "Server md periodicity mis-match with client"
ErrMaxAtoms == "Server md max atoms is 1/3 of 2^31"
ErrNtypes == "Server md ntypes mis-match with client"
ErrSetupField == "Server md setup field unknown"
ErrSetupRequired == "Required server md setup field not received"
ErrCharge == "Server md does not define atom attribute q"
ErrTriclinic == "Server md is not initialized for a triclinic box"
ErrCount == "Server md atom count does not match client"
ErrStepField == "Server md step field unknown"
ErrStepRequired == "Required server md step field not received"
ErrMessage == "Server MD received unrecognized message"

(* ---------------------------------------------------------------------- *)
(* C arithmetic and arrays                                                 *)
(* ---------------------------------------------------------------------- *)

\* a[k] of a C array held as a sequence (0-based index)
At(a, k) == a[k + 1]

\* 3*n in 32-bit two's complement int arithmetic, computed on 16-bit limbs
\* so that no intermediate value leaves the 32-bit range
Mul3Int32(n) ==
  LET lo == n % 65536
      hi == n \div 65536
      lo3 == 3 * lo
      hi3 == (3 * hi + (lo3 \div 65536)) % 65536
      shi == IF hi3 >= 32768 THEN hi3 - 65536 ELSE hi3
  IN shi * 65536 + (lo3 % 65536)

RECURSIVE SumOver(_, _)
SumOver(f, S) ==
  IF S = {} THEN 0
  ELSE LET p == CHOOSE q \in S : TRUE IN f[p] + SumOver(f, S \ {p})

(* ---------------------------------------------------------------------- *)
(* server configuration (fixed by the input script before "server md")     *)
(* ---------------------------------------------------------------------- *)

\* domain->dimension, domain->periodicity, atom->ntypes, atom->q_flag,
\* domain->triclinic of the servers the session is run on
ServerConfigs ==
  { [dimension |-> 3, periodicity |-> <<1, 1, 1>>, ntypes |-> 2,
     q_flag |-> 1, triclinic |-> 1],
    [dimension |-> 3, periodicity |-> <<0, 1, 1>>, ntypes |-> 2,
     q_flag |-> 0, triclinic |-> 0],
    [dimension |-> 2, periodicity |-> <<1, 1, 0>>, ntypes |-> 1,
     q_flag |-> 1, triclinic |-> 0] }

\* the simulation box the input script defined (domain->box_exist)
InitialDomain ==
  [boxlo |-> <<0, 0, 0>>, boxhi |-> <<1, 1, 1>>, xy |-> 0, xz |-> 0, yz |-> 0]

(* ---------------------------------------------------------------------- *)
(* messages the client can send                                            *)
(* ---------------------------------------------------------------------- *)

Origin0 == <<0, 0, 0>>
Origin1 == <<-1, 0, 1>>
BoxOrtho == <<4, 0, 0, 0, 5, 0, 0, 0, 6>>
BoxOrtho2 == <<6, 0, 0, 0, 4, 0, 0, 0, 5>>
BoxTilt == <<4, 0, 0, 1, 5, 0, 2, 3, 6>>
BoxTiltXY == <<4, 0, 0, 1, 5, 0, 0, 0, 6>>
BoxTiltXZ == <<4, 0, 0, 0, 5, 0, 2, 0, 6>>
BoxTiltYZ == <<4, 0, 0, 0, 5, 0, 0, 3, 6>>

Geom(o, b) == [origin |-> o, box |-> b]
SetupGeoms ==
  { Geom(Origin0, BoxOrtho), Geom(Origin1, BoxOrtho2), Geom(Origin0, BoxTilt) }
StepGeoms == { Geom(Origin1, BoxOrtho2), Geom(Origin1, BoxTiltYZ) }

\* per-atom payloads of a client holding n atoms (atom i is index i-1)
TypesOf(n) == [i \in 1..n |-> 1 + (i % 2)]
ChargeOf(n) == [i \in 1..n |-> 4 + i]
\* flat coordinate buffer: slot 3*(i-1)+d holds axis d of atom i
CoordsOf(n, delta) ==
  [k \in 1..(3 * n) |->
     LET i == ((k - 1) \div 3) + 1
         d == (k - 1) % 3
     IN (CASE d = 0 -> i [] d = 1 -> i + 1 [] OTHER -> 0) + delta[d + 1]]

Delta0 == <<0, 0, 0>>
StepDeltas == { <<1, 0, 0>>, <<-3, 6, 0>> }

\* the scalar and per-atom values of a SETUP message, keyed by field
SetupVal(dim, per, g, n, nt) ==
  [dim |-> dim, periodicity |-> per, origin |-> g.origin, box |-> g.box,
   natoms |-> n, ntypes |-> nt,
   types |-> TypesOf(IF n < 0 THEN 0 ELSE n),
   coords |-> CoordsOf(IF n < 0 THEN 0 ELSE n, Delta0),
   charge |-> ChargeOf(IF n < 0 THEN 0 ELSE n)]

\* a SETUP that agrees with server configuration c
GoodVal(c, n, g) == SetupVal(c.dimension, c.periodicity, g, n, c.ntypes)

\* ways a SETUP can depart from what server c expects
Departures ==
  { "dim", "per0", "per1", "per2", "ntypes", "negative", "zero",
    "tiltxy", "tiltxz", "tiltyz" }

\* a one-atom SETUP departing from server c in the ways D
DepartedVal(c, D) ==
  SetupVal(IF "dim" \in D THEN 5 - c.dimension ELSE c.dimension,
           [a \in 1..3 |->
              IF (a = 1 /\ "per0" \in D) \/ (a = 2 /\ "per1" \in D)
                 \/ (a = 3 /\ "per2" \in D)
              THEN 1 - c.periodicity[a] ELSE c.periodicity[a]],
           Geom(Origin0,
                IF c.triclinic = 1 THEN BoxOrtho
                ELSE IF "tiltxy" \in D THEN BoxTiltXY
                ELSE IF "tiltxz" \in D THEN BoxTiltXZ
                ELSE IF "tiltyz" \in D THEN BoxTiltYZ
                ELSE BoxOrtho),
           IF "negative" \in D THEN -1 ELSE IF "zero" \in D THEN 0 ELSE 1,
           IF "ntypes" \in D THEN c.ntypes + 1 ELSE c.ntypes)

\* up to two departures in one message
DepartedVals(c) ==
  { DepartedVal(c, {d1, d2}) : d1 \in Departures, d2 \in Departures }

\* field orders of a SETUP message
Canonical == <<DIM, PERIODICITY, ORIGIN, BOX, NATOMS, NTYPES, TYPES, COORDS, CHARGE>>
SetupOrders ==
  { Canonical,
    <<CHARGE, COORDS, TYPES, NTYPES, NATOMS, BOX, ORIGIN, PERIODICITY, DIM>>,
    <<NATOMS, BOX, NTYPES, TYPES, PERIODICITY, CHARGE, DIM, COORDS, ORIGIN>> }

Without(seq, f) == SelectSeq(seq, LAMBDA e : e # f)

\* all fields, or all fields but the optional CHARGE
FullSeqs == SetupOrders \cup { Without(Canonical, CHARGE) }

\* one required field dropped, or one field of an unknown ID added
BrokenSeqs ==
  { Without(o, f) : o \in SetupOrders, f \in DIM..COORDS }
  \cup { <<u>> \o Canonical : u \in UnknownFieldIDs }
  \cup { Without(Canonical, CHARGE) \o <<u>> : u \in UnknownFieldIDs }

SetupMsg(o, v) == [id |-> SETUP, fieldID |-> o, val |-> v]

\* the fields of a SETUP that server c accepts: CHARGE only where the
\* server defines per-atom charge
Accepted(c) == IF c.q_flag = 1 THEN Canonical ELSE Without(Canonical, CHARGE)

\* the SETUP messages sent to server c: messages that agree with it, varied
\* in the number of atoms, the presence of CHARGE and the box; messages that
\* depart from it; messages with a field missing or unknown
SetupMsgs(c) ==
  { SetupMsg(Accepted(c), GoodVal(c, n, Geom(Origin0, BoxOrtho))) :
      n \in 0..MaxAtoms }
  \cup { SetupMsg(o, GoodVal(c, 1, Geom(Origin0, BoxOrtho))) :
            o \in {Canonical, Without(Canonical, CHARGE)} }
  \cup { SetupMsg(Canonical, GoodVal(c, 1, g)) : g \in SetupGeoms }
  \cup { SetupMsg(o, v) : o \in FullSeqs, v \in DepartedVals(c) }
  \cup { SetupMsg(o, v) :
           o \in BrokenSeqs,
           v \in { DepartedVal(c, {}), DepartedVal(c, {"ntypes", "tiltxy"}) } }

\* field orders of a STEP message: every arrangement of a subset of
\* COORDS, ORIGIN, BOX, and a field of another ID before or after
StepSeqs ==
  { <<>>, <<COORDS>>, <<ORIGIN>>, <<BOX>>,
    <<COORDS, ORIGIN>>, <<ORIGIN, COORDS>>, <<COORDS, BOX>>, <<BOX, COORDS>>,
    <<ORIGIN, BOX>>, <<BOX, ORIGIN>>,
    <<COORDS, ORIGIN, BOX>>, <<COORDS, BOX, ORIGIN>>, <<ORIGIN, COORDS, BOX>>,
    <<ORIGIN, BOX, COORDS>>, <<BOX, COORDS, ORIGIN>>, <<BOX, ORIGIN, COORDS>> }
  \cup { <<u>> \o s : s \in {<<COORDS>>, <<COORDS, ORIGIN, BOX>>},
                      u \in UnknownFieldIDs \cup {DIM} }
  \cup { s \o <<u>> : s \in {<<COORDS>>, <<COORDS, ORIGIN, BOX>>},
                      u \in UnknownFieldIDs \cup {DIM} }

\* whether field f is among the fields of the sequence o
Has(o, f) == \E k \in 1..Len(o) : o[k] = f

\* the client sends one coordinate triple for each atom the server holds; a
\* message holds a payload only for the fields it names
StepMsgs(n) ==
  { [id |-> STEP, fieldID |-> o,
     val |-> [coords |-> IF Has(o, COORDS) THEN CoordsOf(n, d) ELSE <<>>,
              origin |-> IF Has(o, ORIGIN) THEN g.origin ELSE <<>>,
              box |-> IF Has(o, BOX) THEN g.box ELSE <<>>]] :
      o \in StepSeqs, d \in StepDeltas, g \in StepGeoms }

(* ---------------------------------------------------------------------- *)
(* state                                                                   *)
(* ---------------------------------------------------------------------- *)

VARIABLES
  cfg,         \* the server configuration the handlers validate against
  domain,      \* boxlo, boxhi, xy, xz, yz (identical on every process)
  procgrid,    \* the process grid comm->set_proc_grid() last derived
  atoms,       \* atoms[p]: the owned atoms of process p, in local index order
  natoms,      \* atom->natoms
  forcecalls,  \* counters of loop()
  neighcalls,
  trace,       \* the transport's history: every cs->recv() and cs->send()
  stats,       \* the "Server MD calls" reports printed so far
  pc,          \* "loop", "done" (loop() returned) or "aborted" (error->all())
  err,         \* the message of the error->all() that aborted the session
  jcursor,     \* jcursor[p]: j of loop() on process p, the coordinate cursor
  last,        \* history: what the client put into the message last received
  probe,       \* a NATOMS value and the verdict of the SETUP validation on it
  force,       \* what the force engine holds on each process for one reply
  packed,      \* packed[p]: the reply process p packed from it
  boxin,       \* the origin and box last given to box_change(), and the box before
  script,      \* the passes of the loop the client and the collaborators drive
  proc,        \* proc[p]: where process p is in loop() and what it holds
  calls        \* calls[p]: the collective calls process p has entered, in order

vars ==
  <<cfg, domain, procgrid, atoms, natoms, forcecalls, neighcalls, trace,
    stats, pc, err, jcursor, last, probe, force, packed, boxin, script, proc,
    calls>>

\* the variables of the process group
group == <<script, proc, calls>>

\* the variables of the message loop
session ==
  <<cfg, domain, procgrid, atoms, natoms, forcecalls, neighcalls, trace,
    stats, pc, err, jcursor, last>>

\* the mutable session state as one value, threaded through the handlers
State ==
  [domain |-> domain, procgrid |-> procgrid, atoms |-> atoms,
   natoms |-> natoms, forcecalls |-> forcecalls, neighcalls |-> neighcalls,
   trace |-> trace, stats |-> stats, pc |-> pc, err |-> err, j |-> jcursor]

Install(s) ==
  /\ domain' = s.domain
  /\ procgrid' = s.procgrid
  /\ atoms' = s.atoms
  /\ natoms' = s.natoms
  /\ forcecalls' = s.forcecalls
  /\ neighcalls' = s.neighcalls
  /\ trace' = s.trace
  /\ stats' = s.stats
  /\ pc' = s.pc
  /\ err' = s.err
  /\ jcursor' = s.j
  /\ UNCHANGED <<cfg, probe, force, packed, boxin, group>>

\* error->all(): every process stops; the state is left as it is
ErrorAll(s, e) == [s EXCEPT !.pc = "aborted", !.err = e]

\* events of the transport: <<"recv", msgID>> and <<"send", msgID, nfield,
\* the IDs of the fields packed>>
RecvEvent(msgID) == <<"recv", msgID>>
SendEvent(msgID, nfield, fields) == <<"send", msgID, nfield, fields>>

\* cs->recv(nfield,fieldID,fieldtype,fieldlen)
Recv(s, msgID) == [s EXCEPT !.trace = Append(@, RecvEvent(msgID))]

(* ---------------------------------------------------------------------- *)
(* collaborators of the handlers                                           *)
(* ---------------------------------------------------------------------- *)

\* a reduction that is left out: the caller sees the first process's value
LocalValueOnly(vals) == vals[1]

\* MPI_Allreduce(...,MPI_SUM,world) of one value per process
MPI_Allreduce_SUM(vals) == SumOver(vals, Procs)

\* comm->set_proc_grid(): the grid is derived from the box lengths
set_proc_grid(s) ==
  [s EXCEPT !.procgrid =
     [d \in 1..3 |-> s.domain.boxhi[d] - s.domain.boxlo[d]]]

\* a box_change() that measures the upper bounds from the lower bounds the
\* domain held before
box_change_from_old(s, origin, box) ==
  [s EXCEPT !.domain =
     [boxlo |-> <<At(origin, 0), At(origin, 1), At(origin, 2)>>,
      boxhi |-> <<s.domain.boxlo[1] + At(box, 0), s.domain.boxlo[2] + At(box, 4),
                  s.domain.boxlo[3] + At(box, 8)>>,
      xy |-> At(box, 3), xz |-> At(box, 6), yz |-> At(box, 7)]]

\* ServerMD::box_change(origin, box)
box_change(s, origin, box) ==
  [s EXCEPT !.domain =
     [boxlo |-> <<At(origin, 0), At(origin, 1), At(origin, 2)>>,
      boxhi |-> <<At(origin, 0) + At(box, 0), At(origin, 1) + At(box, 4),
                  At(origin, 2) + At(box, 8)>>,
      xy |-> At(box, 3), xz |-> At(box, 6), yz |-> At(box, 7)]]

\* a reply that packs the energy before the forces
send_fev_misordered(s, msgID) ==
  [s EXCEPT !.trace = Append(@, <<"send", msgID, 3, <<ENERGY, FORCES, VIRIAL>>>>)]

\* ServerMD::send_fev(msgID): cs->send(msgID,3), then the three packs
send_fev(s, msgID) ==
  [s EXCEPT !.trace = Append(@, SendEvent(msgID, 3, <<FORCES, ENERGY, VIRIAL>>))]

\* atom->avec->create_atom(type, coord): a new owned atom; its tag and
\* charge are the defaults until the caller sets them
create_atom(type, coord) == [tag |-> 0, type |-> type, x |-> coord, q |-> 0]

\* atom->map(id) on process p: the local index of the atom with this tag.
\* An owned atom has an index below nlocal; a process that holds only a
\* ghost copy (ghost[p] has the identifiers of its ghost atoms) gets an
\* index from nlocal on; -1 when the process holds no copy at all
map(s, p, id, ghost) ==
  LET hits == { m \in 0..(Len(s.atoms[p]) - 1) : At(s.atoms[p], m).tag = id }
  IN IF hits # {} THEN CHOOSE m \in hits : TRUE
     ELSE IF id \in ghost[p] THEN Len(s.atoms[p]) + id - 1
     ELSE -1

\* where each process's atoms are after a re-migration: mig[p] is the
\* process whose atoms process p owns afterwards
Stay == [p \in Procs |-> p]
Migrations == { Stay, [p \in Procs |-> (p % NProcs) + 1] }

\* update->integrate->setup_minimal(flag): with flag = 1 the atoms are
\* re-migrated into local ownership and the neighbor lists rebuilt, with
\* flag = 0 only the forces are computed; identifier, type, charge and
\* position of an atom are kept either way
setup_minimal(s, flag, mig) ==
  IF flag = 0 THEN s
  ELSE [s EXCEPT !.atoms = [p \in Procs |-> @[mig[p]]]]

\* the number of box lengths prd to add to the separation d of two
\* positions to bring it within half a box length of zero
ImageShift(d, prd) ==
  LET r == d % prd
      rr == IF 2 * r > prd THEN r - prd ELSE r
  IN (rr - d) \div prd

\* domain->closest_image(xi, xj, xjimage): the periodic image of xj nearest
\* to xi.  Images are apart by the edge vectors of the box, (xprd,0,0),
\* (xy,yprd,0) and (xz,yz,zprd): a shift along z moves y by yz and x by xz,
\* a shift along y moves x by xy; an axis that is not periodic is not shifted
closest_image(c, dom, xi, xj) ==
  LET prd == [d \in 1..3 |-> dom.boxhi[d] - dom.boxlo[d]]
      dz == xj[3] - xi[3]
      kz == IF c.periodicity[3] = 0 THEN 0 ELSE ImageShift(dz, prd[3])
      dy == xj[2] - xi[2] + kz * dom.yz
      ky == IF c.periodicity[2] = 0 THEN 0 ELSE ImageShift(dy, prd[2])
      dx == xj[1] - xi[1] + kz * dom.xz + ky * dom.xy
      kx == IF c.periodicity[1] = 0 THEN 0 ELSE ImageShift(dx, prd[1])
  IN <<xi[1] + dx + kx * prd[1], xi[2] + dy + ky * prd[2],
       xi[3] + dz + kz * prd[3]>>

(* ---------------------------------------------------------------------- *)
(* SETUP handler                                                           *)
(* ---------------------------------------------------------------------- *)

\* the locals of the SETUP branch as declared; ptr holds the fields whose
\* pointer is no longer NULL
SetupLocals ==
  [dim |-> 0, natoms |-> -1, ntypes |-> -1, ptr |-> {}, err |-> NoError]

\* one iteration of the field loop: unpack the field, validate it
SetupField(loc, f, v, c) ==
  CASE f = DIM ->
         [loc EXCEPT !.dim = v.dim,
                     !.err = IF v.dim # c.dimension THEN ErrDim ELSE NoError]
    [] f = PERIODICITY ->
         [loc EXCEPT !.ptr = @ \cup {PERIODICITY},
                     !.err = IF \/ At(v.periodicity, 0) # At(c.periodicity, 0)
                                \/ At(v.periodicity, 1) # At(c.periodicity, 1)
                                \/ At(v.periodicity, 2) # At(c.periodicity, 2)
                             THEN ErrPeriodicity ELSE NoError]
    [] f = ORIGIN -> [loc EXCEPT !.ptr = @ \cup {ORIGIN}]
    [] f = BOX -> [loc EXCEPT !.ptr = @ \cup {BOX}]
    [] f = NATOMS ->
         [loc EXCEPT !.natoms = v.natoms,
                     !.err = IF Mul3Int32(v.natoms) > INT_MAX
                             THEN ErrMaxAtoms ELSE NoError]
    [] f = NTYPES ->
         [loc EXCEPT !.ntypes = v.ntypes,
                     !.err = IF v.ntypes # c.ntypes THEN ErrNtypes ELSE NoError]
    [] f = TYPES -> [loc EXCEPT !.ptr = @ \cup {TYPES}]
    [] f = COORDS -> [loc EXCEPT !.ptr = @ \cup {COORDS}]
    [] f = CHARGE -> [loc EXCEPT !.ptr = @ \cup {CHARGE}]
    [] OTHER -> [loc EXCEPT !.err = ErrSetupField]

\* a field loop that goes on after an error and keeps the last one
RECURSIVE SetupFieldsKeepGoing(_, _, _, _, _)
SetupFieldsKeepGoing(loc, fieldID, ifield, v, c) ==
  IF ifield >= Len(fieldID) THEN loc
  ELSE LET seen == SetupField(loc, At(fieldID, ifield), v, c)
       IN SetupFieldsKeepGoing(
            IF seen.err # NoError THEN seen ELSE [seen EXCEPT !.err = loc.err],
            fieldID, ifield + 1, v, c)

\* for (ifield = 0; ifield < nfield; ifield++): stops at the first error
RECURSIVE SetupFields(_, _, _, _, _)
SetupFields(loc, fieldID, ifield, v, c) ==
  IF ifield >= Len(fieldID) \/ loc.err # NoError THEN loc
  ELSE SetupFields(SetupField(loc, At(fieldID, ifield), v, c),
                   fieldID, ifield + 1, v, c)

\* a required-field test that forgets NATOMS
SetupMissingButNatoms(loc) ==
  \/ loc.dim = 0
  \/ PERIODICITY \notin loc.ptr
  \/ ORIGIN \notin loc.ptr
  \/ BOX \notin loc.ptr
  \/ loc.ntypes < 0
  \/ TYPES \notin loc.ptr
  \/ COORDS \notin loc.ptr

\* the required-field test after the loop
SetupMissing(loc) ==
  \/ loc.dim = 0
  \/ PERIODICITY \notin loc.ptr
  \/ ORIGIN \notin loc.ptr
  \/ BOX \notin loc.ptr
  \/ loc.natoms < 0
  \/ loc.ntypes < 0
  \/ TYPES \notin loc.ptr
  \/ COORDS \notin loc.ptr

\* a tilt test that looks at the xy term only
TiltedXYOnly(box) == At(box, 3) # 0

\* box[3] != 0.0 || box[6] != 0.0 || box[7] != 0.0
Tilted(box) == At(box, 3) # 0 \/ At(box, 6) # 0 \/ At(box, 7) # 0

\* an atom loop that tags each atom with its local index
RECURSIVE ScatterLoopLocalTags(_, _, _, _, _, _)
ScatterLoopLocalTags(local, i, n, v, hasq, own) ==
  IF i >= n THEN local
  ELSE IF i \notin own THEN ScatterLoopLocalTags(local, i + 1, n, v, hasq, own)
  ELSE LET created == create_atom(At(v.types, i),
                        <<At(v.coords, 3 * i), At(v.coords, 3 * i + 1),
                          At(v.coords, 3 * i + 2)>>)
           tagged == [created EXCEPT !.tag = Len(local) + 1]
           atom == IF hasq THEN [tagged EXCEPT !.q = At(v.charge, i)] ELSE tagged
       IN ScatterLoopLocalTags(Append(local, atom), i + 1, n, v, hasq, own)

\* the atom loop of one process: own holds the indices i for which
\* domain->ownatom(i+1,&coords[3*i],NULL,0) answers true on this process
RECURSIVE ScatterLoop(_, _, _, _, _, _)
ScatterLoop(local, i, n, v, hasq, own) ==
  IF i >= n THEN local
  ELSE IF i \notin own THEN ScatterLoop(local, i + 1, n, v, hasq, own)
  ELSE LET created == create_atom(At(v.types, i),
                        <<At(v.coords, 3 * i), At(v.coords, 3 * i + 1),
                          At(v.coords, 3 * i + 2)>>)
           tagged == [created EXCEPT !.tag = i + 1]
           atom == IF hasq THEN [tagged EXCEPT !.q = At(v.charge, i)] ELSE tagged
       IN ScatterLoop(Append(local, atom), i + 1, n, v, hasq, own)

\* the error the SETUP branch raises before it touches the box, if any
SetupError(c, msg) ==
  LET loc == SetupFields(SetupLocals, msg.fieldID, 0, msg.val, c)
  IN IF loc.err # NoError THEN loc.err
     ELSE IF SetupMissing(loc) THEN ErrSetupRequired
     ELSE IF CHARGE \in loc.ptr /\ c.q_flag = 0 THEN ErrCharge
     ELSE IF Tilted(msg.val.box) /\ c.triclinic = 0 THEN ErrTriclinic
     ELSE NoError

\* setup_minimal(1), neighcalls++, forcecalls++: the atoms were placed by
\* ownatom() a moment ago, so the re-migration moves none
SetupForces(s) ==
  [setup_minimal(s, 1, Stay) EXCEPT !.neighcalls = @ + 1, !.forcecalls = @ + 1]

\* the SETUP branch of loop(); own[p] is what ownatom() answers on process p
loop_SETUP(s, c, msg, own) ==
  LET v == msg.val
      loc == SetupFields(SetupLocals, msg.fieldID, 0, v, c)
  IN IF loc.err # NoError THEN ErrorAll(s, loc.err)
     ELSE IF SetupMissing(loc) THEN ErrorAll(s, ErrSetupRequired)
     ELSE IF CHARGE \in loc.ptr /\ c.q_flag = 0 THEN ErrorAll(s, ErrCharge)
     ELSE IF Tilted(v.box) /\ c.triclinic = 0 THEN ErrorAll(s, ErrTriclinic)
     ELSE
       LET boxed == set_proc_grid(box_change(s, v.origin, v.box))
           scattered ==
             [boxed EXCEPT !.atoms =
                [p \in Procs |->
                   ScatterLoop(<<>>, 0, loc.natoms, v, CHARGE \in loc.ptr, own[p])]]
           ntotal == MPI_Allreduce_SUM([p \in Procs |-> Len(scattered.atoms[p])])
       IN IF ntotal # loc.natoms THEN ErrorAll(scattered, ErrCount)
          ELSE LET counted == [scattered EXCEPT !.natoms = loc.natoms]
                   computed == SetupForces(counted)
               IN send_fev(computed, SETUP)

(* ---------------------------------------------------------------------- *)
(* STEP handler                                                            *)
(* ---------------------------------------------------------------------- *)

\* a field loop that skips the fields it does not know
RECURSIVE StepFieldsLenient(_, _, _)
StepFieldsLenient(loc, fieldID, ifield) ==
  IF ifield >= Len(fieldID) THEN loc
  ELSE LET f == At(fieldID, ifield)
       IN StepFieldsLenient(IF f \in {COORDS, ORIGIN, BOX}
                            THEN [loc EXCEPT !.ptr = @ \cup {f}] ELSE loc,
                            fieldID, ifield + 1)

\* the field loop of the STEP branch: the fields unpacked, or the error
RECURSIVE StepFields(_, _, _)
StepFields(loc, fieldID, ifield) ==
  IF ifield >= Len(fieldID) \/ loc.err # NoError THEN loc
  ELSE LET f == At(fieldID, ifield)
       IN StepFields(IF f \in {COORDS, ORIGIN, BOX}
                     THEN [loc EXCEPT !.ptr = @ \cup {f}]
                     ELSE [loc EXCEPT !.err = ErrStepField],
                     fieldID, ifield + 1)

\* a remap that stores the received coordinates as they are
RECURSIVE StepLoopRaw(_, _, _, _, _, _, _, _)
StepLoopRaw(s, c, p, x, id, j, coords, ghost) ==
  IF id > s.natoms THEN [x |-> x, j |-> j]
  ELSE LET m == map(s, p, id, ghost)
       IN IF m < 0 \/ m >= Len(s.atoms[p])
          THEN StepLoopRaw(s, c, p, x, id + 1, j + 3, coords, ghost)
          ELSE StepLoopRaw(s, c, p,
                 [x EXCEPT ![m + 1] =
                    <<At(coords, j), At(coords, j + 1), At(coords, j + 2)>>],
                 id + 1, j + 3, coords, ghost)

\* a remap loop that leaves the cursor where it is for an atom it skips
RECURSIVE StepLoopNoAdvance(_, _, _, _, _, _, _, _)
StepLoopNoAdvance(s, c, p, x, id, j, coords, ghost) ==
  IF id > s.natoms THEN [x |-> x, j |-> j]
  ELSE LET m == map(s, p, id, ghost)
       IN IF m < 0 \/ m >= Len(s.atoms[p])
          THEN StepLoopNoAdvance(s, c, p, x, id + 1, j, coords, ghost)
          ELSE StepLoopNoAdvance(s, c, p,
                 [x EXCEPT ![m + 1] =
                    closest_image(c, s.domain, x[m + 1],
                      <<At(coords, j), At(coords, j + 1), At(coords, j + 2)>>)],
                 id + 1, j + 3, coords, ghost)

\* for (tagint id = 1; id <= nall; id++) on process p: x is the position
\* array, j the cursor into the coordinate buffer; the result is the
\* position array and the cursor after the loop
RECURSIVE StepLoop(_, _, _, _, _, _, _, _)
StepLoop(s, c, p, x, id, j, coords, ghost) ==
  IF id > s.natoms THEN [x |-> x, j |-> j]
  ELSE LET m == map(s, p, id, ghost)
       IN IF m < 0 \/ m >= Len(s.atoms[p])
          THEN StepLoop(s, c, p, x, id + 1, j + 3, coords, ghost)
          ELSE StepLoop(s, c, p,
                 [x EXCEPT ![m + 1] =
                    closest_image(c, s.domain, x[m + 1],
                      <<At(coords, j), At(coords, j + 1), At(coords, j + 2)>>)],
                 id + 1, j + 3, coords, ghost)

\* the error the STEP branch raises, if any
StepError(c, msg) ==
  LET loc == StepFields([ptr |-> {}, err |-> NoError], msg.fieldID, 0)
  IN IF loc.err # NoError THEN loc.err
     ELSE IF COORDS \notin loc.ptr THEN ErrStepRequired
     ELSE IF {ORIGIN, BOX} \subseteq loc.ptr /\ Tilted(msg.val.box)
             /\ c.triclinic = 0 THEN ErrTriclinic
     ELSE NoError

\* a box update that installs the box before it tests the tilt
StepBoxInstallFirst(s, c, loc, v) ==
  IF {ORIGIN, BOX} \subseteq loc.ptr
  THEN IF Tilted(v.box) /\ c.triclinic = 0
       THEN ErrorAll(box_change(s, v.origin, v.box), ErrTriclinic)
       ELSE box_change(s, v.origin, v.box)
  ELSE s

\* a box update that also derives the process grid anew
StepBoxRegrid(s, c, loc, v) ==
  IF {ORIGIN, BOX} \subseteq loc.ptr
  THEN IF Tilted(v.box) /\ c.triclinic = 0 THEN ErrorAll(s, ErrTriclinic)
       ELSE set_proc_grid(box_change(s, v.origin, v.box))
  ELSE s

\* if (origin && box): the tilt test, then box_change(); loc.ptr holds the
\* fields received
StepBox(s, c, loc, v) ==
  IF {ORIGIN, BOX} \subseteq loc.ptr
  THEN IF Tilted(v.box) /\ c.triclinic = 0 THEN ErrorAll(s, ErrTriclinic)
       ELSE box_change(s, v.origin, v.box)
  ELSE s

\* a remap that creates each owned atom anew at its new position
StepRemapRecreate(s, c, coords, ghost) ==
  LET r == [p \in Procs |->
              StepLoop(s, c, p, [k \in 1..Len(s.atoms[p]) |-> s.atoms[p][k].x],
                       1, 0, coords, ghost)]
  IN [s EXCEPT !.atoms = [p \in Procs |->
                            [k \in 1..Len(s.atoms[p]) |->
                               create_atom(s.atoms[p][k].type, r[p].x[k])]],
               !.j = [p \in Procs |-> r[p].j]]

\* assign received coords to owned atoms, on every process
StepRemap(s, c, coords, ghost) ==
  LET r == [p \in Procs |->
              StepLoop(s, c, p, [k \in 1..Len(s.atoms[p]) |-> s.atoms[p][k].x],
                       1, 0, coords, ghost)]
  IN [s EXCEPT !.atoms = [p \in Procs |->
                            [k \in 1..Len(s.atoms[p]) |->
                               [s.atoms[p][k] EXCEPT !.x = r[p].x[k]]]],
               !.j = [p \in Procs |-> r[p].j]]

\* a STEP that counts a rebuild whatever neighbor->decide() answered
StepForcesCountAll(s, nflag, mig) ==
  LET run == IF nflag = 0 THEN [setup_minimal(s, 0, mig) EXCEPT !.neighcalls = @ + 1]
             ELSE [setup_minimal(s, 1, mig) EXCEPT !.neighcalls = @ + 1]
  IN [run EXCEPT !.forcecalls = @ + 1]

\* neighbor->decide() answered nflag: forward_comm() and setup_minimal(0),
\* or setup_minimal(1) and neighcalls++; then forcecalls++
StepForces(s, nflag, mig) ==
  LET run == IF nflag = 0 THEN setup_minimal(s, 0, mig)
             ELSE [setup_minimal(s, 1, mig) EXCEPT !.neighcalls = @ + 1]
  IN [run EXCEPT !.forcecalls = @ + 1]

\* the STEP branch of loop(); nflag is what neighbor->decide() answers,
\* ghost the ghost atoms of the processes, mig the re-migration of a rebuild
loop_STEP(s, c, msg, nflag, ghost, mig) ==
  LET v == msg.val
      loc == StepFields([ptr |-> {}, err |-> NoError], msg.fieldID, 0)
  IN IF loc.err # NoError THEN ErrorAll(s, loc.err)
     ELSE IF COORDS \notin loc.ptr THEN ErrorAll(s, ErrStepRequired)
     ELSE LET boxed == StepBox(s, c, loc, v)
              moved == StepRemap(boxed, c, v.coords, ghost)
              computed == StepForces(moved, nflag, mig)
          IN IF boxed.pc = "aborted" THEN boxed ELSE send_fev(computed, STEP)

(* ---------------------------------------------------------------------- *)
(* the message loop                                                        *)
(* ---------------------------------------------------------------------- *)

\* an end of loop() that leaves without the final reply
loop_end_silent(s) ==
  [s EXCEPT !.stats = Append(@, [calls |-> s.forcecalls,
                                 reneighborings |-> s.neighcalls]),
            !.pc = "done"]

\* the end of loop(): the final reply, then the statistics
loop_end(s) ==
  [s EXCEPT !.trace = Append(@, SendEvent(0, 0, <<>>)),
            !.stats = Append(@, [calls |-> s.forcecalls,
                                 reneighborings |-> s.neighcalls]),
            !.pc = "done"]

\* one pass of while (1): receive a message, process it, send the reply
loop(s, c, msg, own, nflag, ghost, mig) ==
  LET r == Recv(s, msg.id)
  IN IF msg.id < 0 THEN loop_end(r)
     ELSE IF msg.id = SETUP THEN loop_SETUP(r, c, msg, own)
     ELSE IF msg.id = STEP THEN loop_STEP(r, c, msg, nflag, ghost, mig)
     ELSE ErrorAll(r, ErrMessage)

\* the messages received so far
NumRecv == Cardinality({ k \in 1..Len(trace) : trace[k][1] = "recv" })

NoOwn == [p \in Procs |-> {}]
\* what ownatom() answers on one process for atoms 0..n-1: no atom, every
\* atom, the first atom only, or every atom but the first
OwnAnswers(n) == { {}, 0..(n - 1), {0} \cap (0..(n - 1)), 1..(n - 1) }
Owns(n) == [Procs -> OwnAnswers(n)]
NoGhost == [p \in Procs |-> {}]
\* the ghost atoms of the processes: every other identifier has a ghost
\* copy on a process, so that a process meets identifiers it owns,
\* identifiers it holds a ghost copy of and identifiers it holds no copy of
GhostAnswers(n) == { [p \in Procs |-> { id \in 1..n : (p + id) % 2 = 0 }] }

(* ---------------------------------------------------------------------- *)
(* what the client sent, read off the message itself                       *)
(* ---------------------------------------------------------------------- *)

FieldSet(msg) == { msg.fieldID[k] : k \in 1..Len(msg.fieldID) }

SetupRequiredFields ==
  {DIM, PERIODICITY, ORIGIN, BOX, NATOMS, NTYPES, TYPES, COORDS}

\* the fields of a message whose content disagrees with server c
Disagreeing(c, msg) ==
  LET F == FieldSet(msg)
      v == msg.val
  IN IF msg.id = SETUP
     THEN { f \in F :
              \/ f = DIM /\ v.dim # c.dimension
              \/ f = PERIODICITY /\ v.periodicity # c.periodicity
              \/ f = NTYPES /\ v.ntypes # c.ntypes
              \/ f = CHARGE /\ c.q_flag = 0
              \/ f = BOX /\ c.triclinic = 0
                   /\ (v.box[4] # 0 \/ v.box[7] # 0 \/ v.box[8] # 0) }
     ELSE IF msg.id = STEP
     THEN { f \in F :
              f = BOX /\ ORIGIN \in F /\ c.triclinic = 0
              /\ (v.box[4] # 0 \/ v.box[7] # 0 \/ v.box[8] # 0) }
     ELSE {}

\* the first field of a SETUP, in the order of the message, that the
\* server cannot accept: an unknown ID, or a DIM, PERIODICITY or NTYPES
\* that disagrees with server c; -1 when there is none
FirstBad(c, msg) ==
  LET v == msg.val
      bad == { k \in 1..Len(msg.fieldID) :
                 LET f == msg.fieldID[k]
                 IN \/ f \notin DIM..CHARGE
                    \/ f = DIM /\ v.dim # c.dimension
                    \/ f = PERIODICITY /\ v.periodicity # c.periodicity
                    \/ f = NTYPES /\ v.ntypes # c.ntypes }
  IN IF msg.id # SETUP \/ bad = {} THEN -1
     ELSE msg.fieldID[CHOOSE k \in bad : \A k2 \in bad : k <= k2]

Observe(c, msg) ==
  LET F == FieldSet(msg)
  IN [id |-> msg.id,
      unknown |-> IF msg.id = SETUP THEN ~(F \subseteq DIM..CHARGE)
                  ELSE IF msg.id = STEP THEN ~(F \subseteq {COORDS, ORIGIN, BOX})
                  ELSE FALSE,
      lacking |-> IF msg.id = SETUP THEN SetupRequiredFields \ F
                  ELSE IF msg.id = STEP THEN {COORDS} \ F
                  ELSE {},
      disagreeing |-> Disagreeing(c, msg),
      natoms |-> IF msg.id = SETUP /\ NATOMS \in F THEN msg.val.natoms ELSE 0,
      charge |-> msg.id = SETUP /\ CHARGE \in F,
      firstbad |-> FirstBad(c, msg),
      newbox |-> msg.id = STEP /\ {ORIGIN, BOX} \subseteq F,
      coords |-> IF msg.id = STEP /\ StepError(c, msg) = NoError
                 THEN msg.val.coords ELSE <<>>,
      rebuild |-> FALSE]

BareMsg(id) == [id |-> id, fieldID |-> <<>>]

NoMessage ==
  [id |-> 0, unknown |-> FALSE, lacking |-> {}, disagreeing |-> {},
   natoms |-> 0, charge |-> FALSE, firstbad |-> -1, newbox |-> FALSE,
   coords |-> <<>>, rebuild |-> FALSE]

NoProbe == [natoms |-> 0, verdict |-> "none"]

\* no force results held, no reply packed
NoForce == [kspace |-> 0, local |-> <<>>]
NoPacked == <<>>
\* a process about to call cs->recv() for the first time, holding no atom
AtRecv == [at |-> "recv", st |-> "run", i |-> 0, nlocal |-> 0]
\* the process group before any pass of the loop is driven
NoGroup ==
  /\ script = <<>>
  /\ proc = [p \in Procs |-> AtRecv]
  /\ calls = [p \in Procs |-> <<>>]
\* box_change() not called yet
NoBoxInput == [origin |-> <<>>, box |-> <<>>, before |-> InitialDomain]

(* ---------------------------------------------------------------------- *)
(* the session                                                             *)
(* ---------------------------------------------------------------------- *)

\* the state loop() starts in
InitSession ==
  /\ cfg \in ServerConfigs
  /\ domain = InitialDomain
  /\ procgrid = <<1, 1, 1>>
  /\ atoms = [p \in Procs |-> <<>>]
  /\ natoms = 0
  /\ forcecalls = 0
  /\ neighcalls = 0
  /\ trace = <<>>
  /\ stats = <<>>
  /\ pc = "loop"
  /\ err = NoError
  /\ jcursor = [p \in Procs |-> 0]
  /\ last = NoMessage

Init ==
  /\ InitSession
  /\ probe = NoProbe
  /\ force = NoForce
  /\ packed = NoPacked
  /\ boxin = NoBoxInput
  /\ NoGroup

\* one pass of the loop on message msg with the collaborators' answers
\* own, nflag, ghost and mig: the state loop() leaves becomes the next state
Handle(msg, own, nflag, ghost, mig) ==
  \E next \in { loop(State, cfg, msg, own, nflag, ghost, mig) } : Install(next)

\* a SETUP message arrives
RecvSetup ==
  /\ pc = "loop"
  /\ NumRecv < MaxMsgs
  /\ \E msg \in SetupMsgs(cfg) :
       /\ last' = Observe(cfg, msg)
       /\ IF SetupError(cfg, msg) # NoError
          THEN Handle(msg, NoOwn, 0, NoGhost, Stay)
          ELSE \E own \in Owns(msg.val.natoms) :
                 Handle(msg, own, 0, NoGhost, Stay)

\* a STEP message arrives
RecvStep ==
  /\ pc = "loop"
  /\ NumRecv < MaxMsgs
  /\ \E msg \in StepMsgs(natoms) :
       \E seen \in { Observe(cfg, msg) } :
         IF StepError(cfg, msg) # NoError
         THEN /\ last' = seen
              /\ Handle(msg, NoOwn, 0, NoGhost, Stay)
         ELSE \E nflag \in {0, 1}, ghost \in GhostAnswers(natoms) :
                \E mig \in IF nflag = 0 THEN {Stay} ELSE Migrations :
                  /\ last' = [seen EXCEPT !.rebuild = (nflag # 0)]
                  /\ Handle(msg, NoOwn, nflag, ghost, mig)

\* a message of another kind arrives
RecvOther ==
  /\ pc = "loop"
  /\ NumRecv < MaxMsgs
  /\ \E id \in OtherMsgIDs :
       /\ last' = Observe(cfg, BareMsg(id))
       /\ Handle(BareMsg(id), NoOwn, 0, NoGhost, Stay)

\* the client ends the session: cs->recv() returns a negative message ID
RecvTerminate ==
  /\ pc = "loop"
  /\ \E id \in TerminateIDs :
       /\ last' = Observe(cfg, BareMsg(id))
       /\ Handle(BareMsg(id), NoOwn, 0, NoGhost, Stay)

Next == RecvSetup \/ RecvStep \/ RecvOther \/ RecvTerminate

Spec == Init /\ [][Next]_vars

(* ---------------------------------------------------------------------- *)
(* the SETUP validation applied to single NATOMS values                    *)
(* ---------------------------------------------------------------------- *)

\* NATOMS values around zero, around INT_MAX/3, where 3*NATOMS wraps back
\* to a positive int, and up to INT_MAX
NatomsProbes ==
  { -2, -1, 0, 1, 2,
    715827880, 715827881, 715827882, 715827883, 715827884, 715827885,
    1073741824,
    1431655764, 1431655765, 1431655766, 1431655767,
    INT_MAX - 2, INT_MAX - 1, INT_MAX }

\* a SETUP that agrees with server c and names n atoms (the validation
\* reads no per-atom payload)
ProbeMsg(c, n) ==
  SetupMsg(Without(Canonical, CHARGE),
           [GoodVal(c, 0, Geom(Origin0, BoxOrtho)) EXCEPT !.natoms = n])

InitProbe ==
  /\ InitSession
  /\ probe \in { [natoms |-> n, verdict |-> "none"] : n \in NatomsProbes }
  /\ force = NoForce
  /\ packed = NoPacked
  /\ boxin = NoBoxInput
  /\ NoGroup

\* the SETUP branch up to box_change() on a message naming probe.natoms atoms
ValidateProbe ==
  /\ probe.verdict = "none"
  /\ probe' = [probe EXCEPT
                 !.verdict = IF SetupError(cfg, ProbeMsg(cfg, probe.natoms)) = NoError
                             THEN "accepted" ELSE "rejected"]
  /\ UNCHANGED <<session, force, packed, boxin, group>>

SpecProbe == InitProbe /\ [][ValidateProbe]_vars

(* ---------------------------------------------------------------------- *)
(* send_fev() applied to the results the force engine holds                *)
(* ---------------------------------------------------------------------- *)

\* force->pair->eng_vdwl, eng_coul and virial[6] of one process
PairResults ==
  { [eng_vdwl |-> 0, eng_coul |-> 0, virial |-> <<0, 0, 0, 0, 0, 0>>],
    [eng_vdwl |-> 3, eng_coul |-> -1, virial |-> <<1, 2, 3, 4, 5, 6>>],
    [eng_vdwl |-> -2, eng_coul |-> 5, virial |-> <<-1, 0, 2, 0, -3, 1>>] }

\* force->kspace->virial[6] of one process
KspaceVirials == { <<0, 0, 0, 0, 0, 0>>, <<6, 5, 4, 3, 2, 1>> }

\* the results of one force evaluation: kspace = 1 when force->kspace is
\* set, and then every process holds a long-range virial as well
ForceResults ==
  { [kspace |-> 0, local |-> l] :
      l \in [Procs -> { [pair |-> r, kvirial |-> <<>>] : r \in PairResults }] }
  \cup
  { [kspace |-> 1, local |-> l] :
      l \in [Procs -> { [pair |-> r, kvirial |-> k] :
                          r \in PairResults, k \in KspaceVirials }] }

\* double eng = force->pair->eng_vdwl + force->pair->eng_coul, on process p
eng_local(fr, p) == fr.local[p].pair.eng_vdwl + fr.local[p].pair.eng_coul

\* a virial that leaves the long-range part out
v_local_pair_only(fr, p) == [i \in 1..6 |-> fr.local[p].pair.virial[i]]

\* v[i] = force->pair->virial[i], and v[i] += force->kspace->virial[i] if
\* (force->kspace), on process p
v_local(fr, p) ==
  [i \in 1..6 |->
     IF fr.kspace # 0
     THEN fr.local[p].pair.virial[i] + fr.local[p].kvirial[i]
     ELSE fr.local[p].pair.virial[i]]

\* engall and vall as MPI_Allreduce() leaves them on every process
engall(fr) == MPI_Allreduce_SUM([p \in Procs |-> eng_local(fr, p)])
vall(fr) == [i \in 1..6 |-> MPI_Allreduce_SUM([p \in Procs |-> v_local(fr, p)[i]])]

\* what send_fev(msgID) packs on each process: the header of cs->send(),
\* then ENERGY and VIRIAL (FORCES holds the process's own atoms)
pack_fev(fr, msgID) ==
  [p \in Procs |->
     [msgID |-> msgID, nfield |-> 3, fields |-> <<FORCES, ENERGY, VIRIAL>>,
      energy |-> engall(fr), virial |-> vall(fr)]]

InitFev ==
  /\ InitSession
  /\ probe = NoProbe
  /\ force \in ForceResults
  /\ packed = NoPacked
  /\ boxin = NoBoxInput
  /\ NoGroup

\* send_fev(msgID) after a force evaluation
SendFev ==
  /\ packed = NoPacked
  /\ \E msgID \in {SETUP, STEP} : packed' = pack_fev(force, msgID)
  /\ UNCHANGED <<session, probe, force, boxin, group>>

SpecFev == InitFev /\ [][SendFev]_vars

(* ---------------------------------------------------------------------- *)
(* box_change() applied again and again                                    *)
(* ---------------------------------------------------------------------- *)

\* the origins and edge tensors handed to box_change()
BoxInputs ==
  { Geom(o, b) : o \in {Origin0, Origin1},
                 b \in {BoxOrtho, BoxOrtho2, BoxTilt, BoxTiltYZ} }

InitBox ==
  /\ InitSession
  /\ probe = NoProbe
  /\ force = NoForce
  /\ packed = NoPacked
  /\ boxin = NoBoxInput
  /\ NoGroup

\* box_change(origin, box) on whatever box the domain holds
ChangeBox ==
  /\ \E g \in BoxInputs :
       \E next \in { box_change(State, g.origin, g.box) } :
         /\ domain' = next.domain
         /\ boxin' = [origin |-> g.origin, box |-> g.box, before |-> domain]
  /\ UNCHANGED <<cfg, procgrid, atoms, natoms, forcecalls, neighcalls, trace,
                 stats, pc, err, jcursor, last, probe, force, packed, group>>

SpecBox == InitBox /\ [][ChangeBox]_vars

(* ---------------------------------------------------------------------- *)
(* loop() and send_fev() on each process, one collective call at a time    *)
(* ---------------------------------------------------------------------- *)

\* ownatom() answers that deal the atoms 0..n-1 out round robin, or give
\* them all to process 1 so that every other process owns no atom
OwnSplit(n) == [p \in Procs |-> { i \in 0..(n - 1) : (i % NProcs) + 1 = p }]
OwnFirst(n) == [p \in Procs |-> IF p = 1 THEN 0..(n - 1) ELSE {}]

\* one pass of the loop as the group is driven through it: the message
\* cs->recv() returns on every process, what ownatom() answers on each, and
\* what neighbor->decide() answers on all
Pass(msg, own, nflag) == [msg |-> msg, own |-> own, nflag |-> nflag]

StepPassMsgs ==
  { m \in StepMsgs(MaxAtoms) :
      /\ m.fieldID \in {<<COORDS>>, <<COORDS, ORIGIN, BOX>>, <<ORIGIN>>}
      /\ m.val.coords \in {<<>>, CoordsOf(MaxAtoms, <<1, 0, 0>>)}
      /\ m.val.box \in {<<>>, BoxOrtho2} }

Passes(c) ==
  { Pass(SetupMsg(Accepted(c), GoodVal(c, MaxAtoms, Geom(Origin0, BoxOrtho))),
         own, 0) : own \in {OwnSplit(MaxAtoms), OwnFirst(MaxAtoms), NoOwn} }
  \cup { Pass(SetupMsg(Accepted(c), DepartedVal(c, {"ntypes"})), NoOwn, 0) }
  \cup { Pass(m, NoOwn, 0) : m \in StepPassMsgs }
  \cup { Pass(m, NoOwn, 1) : m \in { n \in StepPassMsgs : n.fieldID = <<COORDS>> } }
  \cup { Pass(BareMsg(id), NoOwn, 0) : id \in TerminateIDs \cup {3} }

Scripts(c) == UNION { [1..n -> Passes(c)] : n \in 1..MaxMsgs }

\* what a process hands to the collective it calls: atom->nlocal to the
\* count reduction (the energy and virial terms steer no branch)
Contribution(r) == IF r.at = "count" THEN r.nlocal ELSE 0

\* the collective call a process is in
Call(r) == [op |-> r.at, arg |-> Contribution(r)]

\* after cs->recv(): the branch of loop() the message selects; a SETUP that
\* passes the checks is scattered, which sets atom->nlocal
AfterRecv(r, c, e, own) ==
  LET msg == e.msg
  IN IF msg.id < 0 THEN [r EXCEPT !.at = "closing"]
     ELSE IF msg.id = SETUP
     THEN IF SetupError(c, msg) # NoError THEN [r EXCEPT !.at = "error_all"]
          ELSE [r EXCEPT !.at = "count",
                         !.nlocal = Len(ScatterLoop(<<>>, 0, msg.val.natoms,
                                          msg.val, Has(msg.fieldID, CHARGE),
                                          own))]
     ELSE IF msg.id = STEP
     THEN IF StepError(c, msg) # NoError THEN [r EXCEPT !.at = "error_all"]
          ELSE [r EXCEPT !.at = "decide"]
     ELSE [r EXCEPT !.at = "error_all"]

\* after MPI_Allreduce(&atom->nlocal,&ntotal,...): if (ntotal != natoms)
AfterCount(r, e, ntotal) ==
  IF ntotal # e.msg.val.natoms THEN [r EXCEPT !.at = "error_all"]
  ELSE [r EXCEPT !.at = "setup_minimal"]

\* after neighbor->decide(): forward_comm() or setup_minimal(1)
AfterDecide(r, e) ==
  IF e.nflag = 0 THEN [r EXCEPT !.at = "forward_comm"]
  ELSE [r EXCEPT !.at = "setup_minimal"]

\* a send_fev() that packs forces only on a process that owns atoms
AfterSendSkipEmpty(r) ==
  IF r.nlocal = 0 THEN [r EXCEPT !.at = "energy"]
  ELSE [r EXCEPT !.at = "pack_parallel"]

\* after cs->send(msgID,3): forces is NULL on a process that owns no atom,
\* and cs->pack_parallel() is called all the same
AfterSend(r) == [r EXCEPT !.at = "pack_parallel"]

\* where process r goes on when the collective it is in completes: e is the
\* pass it is in, own what ownatom() answers it, sum the reduced value
Resume(r, c, e, own, sum) ==
  CASE r.at = "recv" -> AfterRecv([r EXCEPT !.i = @ + 1], c, e, own)
    [] r.at = "count" -> AfterCount(r, e, sum)
    [] r.at = "setup_minimal" -> [r EXCEPT !.at = "send"]
    [] r.at = "decide" -> AfterDecide(r, e)
    [] r.at = "forward_comm" -> [r EXCEPT !.at = "send"]
    [] r.at = "send" -> AfterSend(r)
    [] r.at = "pack_parallel" -> [r EXCEPT !.at = "energy"]
    [] r.at = "energy" -> [r EXCEPT !.at = "virial"]
    [] r.at = "virial" -> [r EXCEPT !.at = "recv"]
    [] r.at = "closing" -> [r EXCEPT !.st = "returned"]
    [] r.at = "error_all" -> [r EXCEPT !.st = "aborted"]

InitGroup ==
  /\ InitSession
  /\ probe = NoProbe
  /\ force = NoForce
  /\ packed = NoPacked
  /\ boxin = NoBoxInput
  /\ script \in Scripts(cfg)
  /\ proc = [p \in Procs |-> AtRecv]
  /\ calls = [p \in Procs |-> <<>>]

\* a process reaches its next collective call and enters it
EnterCollective ==
  /\ \E p \in Procs :
       /\ proc[p].st = "run"
       /\ proc' = [proc EXCEPT ![p].st = "wait"]
       /\ calls' = [calls EXCEPT ![p] = Append(@, Call(proc[p]))]
  /\ UNCHANGED <<session, probe, force, packed, boxin, script>>

\* a collective completes on a process once every process has entered it:
\* the k-th call of each is the same operation (a cs->recv() completes when
\* the client has sent a further message)
LeaveCollective ==
  /\ \E p \in Procs :
       LET r == proc[p]
           k == Len(calls[p])
       IN /\ r.st = "wait"
          /\ \A q \in Procs : Len(calls[q]) >= k /\ calls[q][k].op = r.at
          /\ r.at = "recv" => r.i < Len(script)
          /\ LET e == script[IF r.at = "recv" THEN r.i + 1 ELSE r.i]
                 sum == MPI_Allreduce_SUM([q \in Procs |-> calls[q][k].arg])
             IN \E next \in { Resume([r EXCEPT !.st = "run"], cfg, e,
                                      e.own[p], sum) } :
                  proc' = [proc EXCEPT ![p] = next]
  /\ UNCHANGED <<session, probe, force, packed, boxin, script, calls>>

NextGroup == EnterCollective \/ LeaveCollective

SpecGroup == InitGroup /\ [][NextGroup]_vars

(* ---------------------------------------------------------------------- *)
(* properties                                                              *)
(* ---------------------------------------------------------------------- *)

ClosingReply == SendEvent(0, 0, <<>>)
Reply(msgID) == SendEvent(msgID, 3, <<FORCES, ENERGY, VIRIAL>>)
Received == trace # <<>>
LastEvent == trace[Len(trace)]
SessionState == <<domain, procgrid, atoms, natoms, forcecalls, neighcalls>>
HeldAtoms == UNION { { <<p, k>> : k \in 1..Len(atoms[p]) } : p \in Procs }
Held == SumOver([p \in Procs |-> Len(atoms[p])], Procs)
Handled(msgID) == Received /\ last.id = msgID /\ pc = "loop"

\* C1: when loop() has returned, the trace ends with the terminating receive
\* followed by the closing reply <<send, 0, 0 fields>>; that reply occurs
\* once, after the replies to all N handled messages (one reply for each
\* non-terminating receive), and nothing is received after it; before the
\* terminating receive no closing reply is sent.
C1_ClosingReplyOnce ==
  LET n == Len(trace)
      requests == { k \in 1..n : trace[k][1] = "recv" /\ trace[k][2] >= 0 }
      replies == { k \in 1..n : trace[k][1] = "send" /\ trace[k][3] = 3 }
  IN IF pc = "done"
     THEN /\ n >= 2
          /\ trace[n] = ClosingReply
          /\ trace[n - 1][1] = "recv" /\ trace[n - 1][2] < 0
          /\ \A k \in 1..(n - 1) : trace[k] # ClosingReply
          /\ \A k \in 1..(n - 2) : trace[k][1] = "recv" => trace[k][2] >= 0
          /\ Cardinality(replies) = Cardinality(requests)
          /\ \A k \in replies : k < n - 1
     ELSE \A k \in 1..n : trace[k] # ClosingReply

C1_Witness ==
  /\ pc = "done"
  /\ trace = <<RecvEvent(SETUP), Reply(SETUP), RecvEvent(STEP), Reply(STEP),
               RecvEvent(-1), ClosingReply>>

\* C2: a STEP received when no SETUP has been handled aborts the session:
\* no force evaluation is performed and no STEP reply is sent.
C2_StepBeforeSetupFatal ==
  (/\ Received
   /\ last.id = STEP
   /\ \A k \in 1..Len(trace) : trace[k] # Reply(SETUP))
  => /\ pc = "aborted"
     /\ forcecalls = 0
     /\ \A k \in 1..Len(trace) : trace[k] # Reply(STEP)

\* C3: a SETUP with a field that disagrees with the server (DIM,
\* PERIODICITY, NTYPES, CHARGE without per-atom charge, tilted BOX on a
\* non-triclinic server), in any field order, ends in error->all() with the
\* box, the process grid, every process's atoms, the atom count and both
\* counters as they were before the message.
C3_MismatchLeavesStateUntouched ==
  [][ (last'.id = SETUP /\ last'.disagreeing # {})
      => /\ pc' = "aborted"
         /\ err' # NoError
         /\ UNCHANGED SessionState ]_vars

C3_Witness ==
  /\ pc = "aborted"
  /\ last.id = SETUP
  /\ last.disagreeing = {BOX}
  /\ err = ErrTriclinic
  /\ forcecalls = 1
  /\ natoms = 2

\* C4: a SETUP naming N atoms that sends its reply leaves the sum of the
\* processes' owned-atom counts equal to N (and atom->natoms = N); a SETUP
\* that ends in the atom-count error had a sum different from N and sent no
\* reply.
C4_CountEqualsNatoms ==
  (Received /\ last.id = SETUP)
  => /\ pc = "loop" => /\ Held = last.natoms
                       /\ natoms = last.natoms
                       /\ LastEvent = Reply(SETUP)
     /\ err = ErrCount => /\ Held # last.natoms
                          /\ pc = "aborted"
                          /\ LastEvent = RecvEvent(SETUP)

C4_Witness ==
  /\ Handled(SETUP)
  /\ last.natoms = 2
  /\ \A p \in {1, 2} : Len(atoms[p]) = 1

\* C5 as claimed: after a SETUP that passed the count reduction, every
\* identifier 1..natoms is held by exactly one process, whatever ownatom()
\* answered.
C5_EveryIdOnExactlyOneProcess ==
  Handled(SETUP)
  => \A id \in 1..natoms :
       Cardinality({ h \in HeldAtoms : atoms[h[1]][h[2]].tag = id }) = 1

\* C5 as amended: after a SETUP that passed the count reduction the
\* processes hold natoms atoms in all; each held atom carries the identifier
\* i+1, type, coordinates and charge of its position i in the message (charge
\* 0 when none was sent), identifiers ascend within a process; and when no
\* identifier is held by two processes, the identifiers held are exactly
\* 1..natoms.
C5_CountAndIdentity ==
  Handled(SETUP)
  => /\ Held = natoms
     /\ \A h \in HeldAtoms :
          LET a == atoms[h[1]][h[2]]
          IN /\ a.tag \in 1..natoms
             /\ a.type = TypesOf(natoms)[a.tag]
             /\ a.x = <<a.tag, a.tag + 1, 0>>
             /\ a.q = IF last.charge THEN ChargeOf(natoms)[a.tag] ELSE 0
             /\ h[2] > 1 => atoms[h[1]][h[2] - 1].tag < a.tag
     /\ (\A g, h \in HeldAtoms :
           atoms[g[1]][g[2]].tag = atoms[h[1]][h[2]].tag => g[1] = h[1])
        => { atoms[h[1]][h[2]].tag : h \in HeldAtoms } = 1..natoms

C5_Witness ==
  /\ Handled(SETUP)
  /\ last.charge
  /\ natoms = 2
  /\ Len(atoms[1]) = 1 /\ atoms[1][1].tag = 2
  /\ Len(atoms[2]) = 1 /\ atoms[2][1].tag = 1

\* C6: every send is either the reply to the receive just before it, tagged
\* with that message's kind and packing FORCES, ENERGY, VIRIAL in this
\* order, or the closing reply after a terminating receive; every receive
\* but the last is followed at once by a send, and the last receive is left
\* without one only by a fatal error.
C6_OneReplyPerRequest ==
  \A k \in 1..Len(trace) :
    IF trace[k][1] = "send"
    THEN /\ k > 1
         /\ trace[k - 1][1] = "recv"
         /\ \/ /\ trace[k - 1][2] \in {SETUP, STEP}
               /\ trace[k] = Reply(trace[k - 1][2])
            \/ /\ trace[k - 1][2] < 0
               /\ trace[k] = ClosingReply
    ELSE IF k < Len(trace)
         THEN trace[k + 1][1] = "send"
         ELSE pc = "aborted"

C6_Witness ==
  /\ pc = "loop"
  /\ forcecalls = 2
  /\ trace = <<RecvEvent(SETUP), Reply(SETUP), RecvEvent(STEP), Reply(STEP)>>
  /\ natoms = 2

\* C7: a message with a field ID its kind does not accept, or of a kind
\* that is neither SETUP, STEP nor terminating, aborts the session: the
\* trace ends with the receive of that message (no reply), and holds no
\* closing reply.
C7_UnknownAborts ==
  (Received /\ (last.unknown \/ (last.id >= 0 /\ last.id \notin {SETUP, STEP})))
  => /\ pc = "aborted"
     /\ err # NoError
     /\ LastEvent = RecvEvent(last.id)
     /\ \A k \in 1..Len(trace) : trace[k] # ClosingReply

C7_Witness ==
  /\ pc = "aborted"
  /\ last.id = STEP
  /\ last.unknown
  /\ last.lacking = {}
  /\ err = ErrStepField
  /\ trace = <<RecvEvent(SETUP), Reply(SETUP), RecvEvent(STEP)>>

C9_NonPositiveNatomsRejected ==
  [][ (last'.id = SETUP /\ NATOMS \notin last'.lacking /\ last'.natoms <= 0)
      => /\ pc' = "aborted"
         /\ UNCHANGED SessionState ]_vars

\* C10: a SETUP naming a NATOMS with 3*NATOMS > INT_MAX is rejected.
C10_TripleOverflowRejected ==
  (probe.verdict # "none" /\ probe.natoms > INT_MAX \div 3)
  => probe.verdict = "rejected"

\* C11: on a server without triclinic support, a SETUP whose BOX has a
\* tilt term (tensor index 3, 6 or 7), or a STEP with ORIGIN and such a BOX,
\* ends in error->all() with boxlo, boxhi, xy, xz and yz as they were before
\* the message.
C11_TiltRejectedBeforeInstall ==
  [][ (BOX \in last'.disagreeing)
      => /\ pc' = "aborted"
         /\ err' # NoError
         /\ UNCHANGED domain ]_vars

C11_Witness ==
  /\ pc = "aborted"
  /\ last.id = STEP
  /\ BOX \in last.disagreeing
  /\ ~last.unknown
  /\ last.lacking = {}
  /\ err = ErrTriclinic
  /\ domain = [boxlo |-> <<0, 0, 0>>, boxhi |-> <<4, 5, 6>>,
                xy |-> 0, xz |-> 0, yz |-> 0]
  /\ natoms = 2

\* the atoms held by the processes a, as <<identifier, type, charge>>
Identity(a) ==
  UNION { { <<a[p][k].tag, a[p][k].type, a[p][k].q>> : k \in 1..Len(a[p]) } :
          p \in Procs }
Positions(a) ==
  UNION { { <<a[p][k].tag, a[p][k].x>> : k \in 1..Len(a[p]) } : p \in Procs }

\* C12: a STEP, whether it rebuilds or reuses the neighbor lists, leaves
\* atom->natoms, the number of atoms held and the set of <<identifier, type,
\* charge>> held over all processes as they were; on the reuse path every
\* process keeps its atoms in place and nothing but their positions differs.
C12_StepKeepsIdentity ==
  [][ (last'.id = STEP)
      => /\ natoms' = natoms
         /\ Identity(atoms') = Identity(atoms)
         /\ SumOver([p \in Procs |-> Len(atoms'[p])], Procs) = Held
         /\ last'.rebuild
            \/ \A p \in Procs :
                 /\ Len(atoms'[p]) = Len(atoms[p])
                 /\ \A k \in 1..Len(atoms[p]) :
                      [atoms'[p][k] EXCEPT !.x = atoms[p][k].x] = atoms[p][k] ]_vars

\* a rebuilding STEP was handled after a SETUP of two charged atoms held by
\* two processes, and moved them
C12_Witness ==
  /\ Handled(STEP)
  /\ last.rebuild
  /\ neighcalls = 2
  /\ natoms = 2
  /\ Identity(atoms) = { <<1, 2, 5>>, <<2, 1, 6>> }
  /\ \A p \in {1, 2} : Len(atoms[p]) = 1
  /\ Positions(atoms) # { <<1, <<1, 2, 0>>>>, <<2, <<2, 3, 0>>>> }

\* C13: both counters start at 0 and never decrease; a message that gets
\* its reply adds 1 to forcecalls and no other message changes it, so
\* forcecalls is the number of replies sent; neighcalls grows by 1 with every
\* SETUP reply and with every STEP reply whose neighbor->decide() asked for
\* a rebuild, and not otherwise; neighcalls <= forcecalls; the counters are
\* reported once, with their final values, in the step that sends the
\* closing reply, and at no other time.
C13_Counters ==
  /\ forcecalls = 0 /\ neighcalls = 0 /\ stats = <<>>
  /\ [](/\ neighcalls <= forcecalls
        /\ forcecalls = Cardinality({ k \in 1..Len(trace) :
                                        trace[k][1] = "send" /\ trace[k][3] = 3 })
        /\ Len(stats) = IF pc = "done" THEN 1 ELSE 0)
  /\ [][ LET replied == /\ Len(trace') = Len(trace) + 2
                        /\ trace'[Len(trace')] = Reply(last'.id)
             rebuilt == replied /\ (last'.id = SETUP \/ last'.rebuild)
         IN /\ forcecalls' = forcecalls + (IF replied THEN 1 ELSE 0)
            /\ neighcalls' = neighcalls + (IF rebuilt THEN 1 ELSE 0)
            /\ stats' # stats
               => /\ trace' = trace \o <<RecvEvent(last'.id), ClosingReply>>
                  /\ stats' = <<[calls |-> forcecalls,
                                 reneighborings |-> neighcalls]>> ]_vars

\* a session of a SETUP and a STEP that reused the neighbor lists has ended
C13_Witness ==
  /\ pc = "done"
  /\ stats = <<[calls |-> 2, reneighborings |-> 1]>>
  /\ forcecalls = 2
  /\ neighcalls = 1
  /\ natoms = 2

Triple(coords, id) ==
  <<coords[3 * (id - 1) + 1], coords[3 * (id - 1) + 2], coords[3 * (id - 1) + 3]>>

Abs(n) == IF n < 0 THEN -n ELSE n

\* box lengths of a box
Prd(dom) == [d \in 1..3 |-> dom.boxhi[d] - dom.boxlo[d]]

\* r is a whole number of box lengths prd along an axis of periodicity per
\* (none at all when the axis is not periodic), and that number
Whole(r, per, prd) == IF per = 0 THEN r = 0 ELSE r % prd = 0
Count(r, per, prd) == IF per = 0 THEN 0 ELSE r \div prd

\* new is, on each periodic axis, c plus a whole number of box lengths and
\* within half a box length of old; on the other axes new is c
AxisImage(cf, dom, old, c, new) ==
  \A d \in 1..3 :
    /\ Whole(new[d] - c[d], cf.periodicity[d], Prd(dom)[d])
    /\ cf.periodicity[d] # 0 => 2 * Abs(new[d] - old[d]) <= Prd(dom)[d]

\* new is c plus whole numbers kx, ky, kz of the edge vectors (xprd,0,0),
\* (xy,yprd,0), (xz,yz,zprd) of the periodic axes, and on each periodic axis
\* within half a box length of old
LatticeImage(cf, dom, old, c, new) ==
  LET rz == new[3] - c[3]
      kz == Count(rz, cf.periodicity[3], Prd(dom)[3])
      ry == new[2] - c[2] - kz * dom.yz
      ky == Count(ry, cf.periodicity[2], Prd(dom)[2])
      rx == new[1] - c[1] - kz * dom.xz - ky * dom.xy
  IN /\ Whole(rz, cf.periodicity[3], Prd(dom)[3])
     /\ Whole(ry, cf.periodicity[2], Prd(dom)[2])
     /\ Whole(rx, cf.periodicity[1], Prd(dom)[1])
     /\ \A d \in 1..3 :
          cf.periodicity[d] # 0 => 2 * Abs(new[d] - old[d]) <= Prd(dom)[d]

\* C15 as claimed: after a STEP that got its reply, the position of every
\* held atom is, axis by axis, the received coordinate shifted by a whole
\* number of box lengths of the box now in force and nearest to the previous
\* position; on an axis that is not periodic it is the received coordinate.
C15_AxisWiseMinimumImage ==
  [][ (last'.id = STEP /\ pc' = "loop")
      => \A new \in Positions(atoms') :
           \E old \in Positions(atoms) :
             /\ old[1] = new[1]
             /\ AxisImage(cfg, domain', old[2], Triple(last'.coords, new[1]),
                          new[2]) ]_vars

\* C15 as amended: after a STEP that got its reply, the position of every
\* held atom is the received coordinate shifted by whole numbers of the edge
\* vectors of the box now in force (box lengths when the box has no tilt),
\* along periodic axes only, and lies on each periodic axis within half a
\* box length of the previous position.
C15_LatticeMinimumImage ==
  [][ (last'.id = STEP /\ pc' = "loop")
      => \A new \in Positions(atoms') :
           \E old \in Positions(atoms) :
             /\ old[1] = new[1]
             /\ LatticeImage(cfg, domain', old[2], Triple(last'.coords, new[1]),
                             new[2]) ]_vars

\* a STEP moved the atom of a tilted box across the y boundary: the image
\* stored is the coordinate received shifted by the edge vector (xy,yprd,0)
\* and then by the box length along x
C15_Witness ==
  /\ Handled(STEP)
  /\ cfg.triclinic = 1
  /\ domain.xy = 1
  /\ natoms = 1
  /\ last.coords = <<-2, 8, 0>>
  /\ Positions(atoms) = { <<1, <<1, 3, 0>>>> }

\* the error->all() message of a SETUP field the server cannot accept
FieldError(f) ==
  CASE f = DIM -> ErrDim
    [] f = PERIODICITY -> ErrPeriodicity
    [] f = NTYPES -> ErrNtypes
    [] OTHER -> ErrSetupField

\* C16 as claimed: a SETUP of known fields and a positive (or missing)
\* NATOMS that breaks one or more of the rules DIM, PERIODICITY, NTYPES,
\* tilt is rejected with the error of the first rule broken in this order,
\* whatever the order of its fields and whether or not a required field is
\* missing.
C16_FixedValidationOrder ==
  (/\ Received
   /\ last.id = SETUP
   /\ ~last.unknown
   /\ NATOMS \in last.lacking \/ last.natoms > 0
   /\ last.disagreeing \cap {DIM, PERIODICITY, NTYPES, BOX} # {})
  => err = (IF DIM \in last.disagreeing THEN ErrDim
            ELSE IF PERIODICITY \in last.disagreeing THEN ErrPeriodicity
            ELSE IF NTYPES \in last.disagreeing THEN ErrNtypes
            ELSE ErrTriclinic)

\* C16 as amended: the fields are validated in the order of the message:
\* the error raised is that of the first field, in message order, that is
\* unknown or whose DIM, PERIODICITY or NTYPES disagrees with the server;
\* when the field loop rejects none, a missing required field (or a negative
\* NATOMS) is reported, then a CHARGE sent to a server without per-atom
\* charge, then a tilted BOX on a server without triclinic support.
C16_MessageOrderValidation ==
  (Received /\ last.id = SETUP)
  => IF last.firstbad # -1 THEN err = FieldError(last.firstbad)
     ELSE IF last.lacking # {} \/ last.natoms < 0 THEN err = ErrSetupRequired
     ELSE IF CHARGE \in last.disagreeing THEN err = ErrCharge
     ELSE IF BOX \in last.disagreeing THEN err = ErrTriclinic
     ELSE err \in {NoError, ErrCount}

\* a SETUP whose NTYPES comes before its DIM, both disagreeing with the
\* server, was rejected for NTYPES
C16_Witness ==
  /\ pc = "aborted"
  /\ last.id = SETUP
  /\ last.disagreeing = {DIM, NTYPES}
  /\ last.firstbad = NTYPES
  /\ last.lacking = {}
  /\ err = ErrNtypes

\* C17: a STEP that does not carry both ORIGIN and BOX leaves the box
\* bounds and the tilt factors as they were and raises no tilt error; no
\* STEP, with or without a box update, changes the process grid, which
\* changes only when a SETUP is handled.
C17_StepBoxFrame ==
  [][ /\ (last'.id = STEP /\ NumRecv' # NumRecv)
         => /\ procgrid' = procgrid
            /\ (~last'.newbox => (domain' = domain /\ err' # ErrTriclinic))
      /\ (procgrid' # procgrid) => last'.id = SETUP ]_vars

\* a STEP without the pair ORIGIN, BOX was answered, and the box and the
\* process grid are still those the SETUP installed
C17_Witness ==
  /\ last.id = STEP
  /\ ~last.newbox
  /\ last.coords # <<>>
  /\ pc = "loop"
  /\ forcecalls = 2
  /\ domain.boxlo = Origin0
  /\ procgrid # <<1, 1, 1>>

\* C18: when a STEP is answered, the position of the atom with identifier k
\* is the closest image of the triple at offset 3*(k-1) of COORDS, on
\* whichever process holds it and whatever identifiers that process skips
\* as absent or as ghost copies; on every process the cursor j ends at
\* 3*natoms.
C18_CoordsByIdentifier ==
  [][ (last'.id = STEP /\ NumRecv' # NumRecv /\ pc' = "loop")
      => /\ \A p \in Procs : jcursor'[p] = 3 * natoms
         /\ Positions(atoms') =
              { <<t[1], closest_image(cfg, domain', t[2],
                                      Triple(last'.coords, t[1]))>> :
                  t \in Positions(atoms) } ]_vars

\* a STEP was answered without a rebuild by two processes of one atom each:
\* process 1 holds atom 2 and a ghost copy of atom 1, process 2 holds atom 1
\* and a ghost copy of atom 2; both cursors ended at 6
C18_Witness ==
  /\ last.id = STEP
  /\ pc = "loop"
  /\ ~last.rebuild
  /\ natoms = 2
  /\ jcursor = [p \in Procs |-> 6]
  /\ Len(atoms[1]) = 1 /\ atoms[1][1].tag = 2
  /\ Len(atoms[2]) = 1 /\ atoms[2][1].tag = 1
  /\ \E ghost \in GhostAnswers(2) : ghost[1] = {1} /\ ghost[2] = {2}
  /\ Positions(atoms) =
       { <<k, Triple(last.coords, k)>> : k \in 1..2 }

\* C19: after box_change(origin, box) the lower bounds are the origin, the
\* upper bounds the origin plus the tensor entries 0, 4, 8 and the tilt
\* factors xy, xz, yz the tensor entries 3, 6, 7, whatever box the domain
\* held before; giving box_change() the same origin and box again leaves the
\* box as it is.
C19_BoxChangePure ==
  /\ [](boxin # NoBoxInput
        => /\ \A d \in 1..3 :
                /\ domain.boxlo[d] = boxin.origin[d]
                /\ domain.boxhi[d] = boxin.origin[d] + boxin.box[4 * (d - 1) + 1]
           /\ domain.xy = boxin.box[4]
           /\ domain.xz = boxin.box[7]
           /\ domain.yz = boxin.box[8])
  /\ [][ (boxin'.origin = boxin.origin /\ boxin'.box = boxin.box)
         => domain' = domain ]_vars

\* box_change() was given origin (-1, 0, 1) and the tilted tensor on a domain
\* that held an orthogonal box of other bounds
C19_Witness ==
  /\ boxin.origin = Origin1
  /\ boxin.box = BoxTilt
  /\ boxin.before = [boxlo |-> <<0, 0, 0>>, boxhi |-> <<6, 4, 5>>,
                      xy |-> 0, xz |-> 0, yz |-> 0]
  /\ domain = [boxlo |-> <<-1, 0, 1>>, boxhi |-> <<3, 5, 7>>,
                xy |-> 1, xz |-> 2, yz |-> 3]

\* the smaller of two numbers
Min(a, b) == IF a < b THEN a ELSE b

\* C20: processes given the same messages, the same configuration and the
\* same rebuild decision enter the same collective operations in the same
\* order, whatever each of them owns: the k-th call of any two processes is
\* the same operation, processes that have made equally many calls are
\* handling the same message at the same place, and no process waits in a
\* collective that a process which has returned or aborted never entered.
C20_SameCollectiveSequence ==
  \A p \in Procs, q \in Procs :
    /\ \A k \in 1..Min(Len(calls[p]), Len(calls[q])) :
         calls[p][k].op = calls[q][k].op
    /\ (Len(calls[p]) = Len(calls[q]) /\ proc[p].st = proc[q].st)
         => (proc[p].at = proc[q].at /\ proc[p].i = proc[q].i)
    /\ (proc[p].st = "wait" /\ proc[q].st \in {"returned", "aborted"})
         => Len(calls[q]) >= Len(calls[p])

\* a SETUP gave every atom to process 1: process 2, owning none, went
\* through the count reduction, pack_parallel and both reductions of the
\* reply as process 1 did, and both are in cs->recv() again
C20_Witness ==
  /\ proc[1].nlocal = MaxAtoms
  /\ proc[2].nlocal = 0
  /\ \A p \in Procs :
       /\ proc[p].at = "recv" /\ proc[p].st = "wait" /\ proc[p].i = 1
       /\ [k \in 1..Len(calls[p]) |-> calls[p][k].op] =
            <<"recv", "count", "setup_minimal", "send", "pack_parallel",
              "energy", "virial", "recv">>

====
